---------------------------- MODULE Spec2Model ----------------------------
(***************************************************************************)
(* Times Table Turbo (src/script.js): the per-fact mastery store           *)
(* (loadStats, saveStats, statKey, computeScore, updateStats), the         *)
(* question generator (shuffle, generateQuestions) and the round's         *)
(* event handlers.                                                         *)
(*                                                                         *)
(* Numbers.  JavaScript numbers are IEEE doubles.  The model computes with *)
(* exact rationals [n, d] (d > 0, lowest terms) and a separate NaN value;  *)
(* the rounding of doubles is not modelled.  (1 - 0.3 evaluates to the     *)
(* double 0.7, and rounding is monotone, so a bound such as                *)
(* x * 0.7 + y * 0.3 <= 100 for x, y <= 100 carries over to doubles.)      *)
(*                                                                         *)
(* JavaScript values are records tagged by "kind": undefined, null, NaN,   *)
(* number, boolean, string, array, object.  The storage entry is either    *)
(* absent or a text; a text is empty, unparsable, or a JSON document.      *)
(***************************************************************************)
EXTENDS Integers, Sequences, FiniteSets, TLC

VARIABLES
  storage,            \* localStorage[STORAGE_KEY]
  screen,             \* which of the three screens carries class "active"
  questions,          \* let questions
  currentIndex,       \* let currentIndex
  currentAnswer,      \* let currentAnswer (the typed digits, first to last)
  questionStartTime,  \* let questionStartTime (ms)
  roundResults,       \* let roundResults
  feedbackTimeout,    \* let feedbackTimeout (a timer id, or null)
  isShowingFeedback,  \* let isShowingFeedback
  timers,             \* the browser's pending setTimeout callbacks
  dom,                \* what the handlers wrote to the page's elements
  rounds,             \* how many rounds were started
  answered,           \* how many answers were accepted, over all rounds
  habit,              \* the learner: how the answers come (see Plain)
  calls,              \* how many direct calls of updateStats were made
  lastCall,           \* the operation that ran last, with its arguments
  returned,           \* what that operation returned
  thrown              \* whether it ended by an uncaught exception

vars == <<storage, screen, questions, currentIndex, currentAnswer,
          questionStartTime, roundResults, feedbackTimeout,
          isShowingFeedback, timers, dom, rounds, answered, habit, calls,
          lastCall, returned, thrown>>

gameVars == <<screen, questions, currentIndex, currentAnswer,
              questionStartTime, roundResults, feedbackTimeout,
              isShowingFeedback, timers, dom, rounds, answered, habit>>

callVars == <<calls, lastCall, returned>>

-----------------------------------------------------------------------------
(* Exact rationals *)

Abs(i) == IF i < 0 THEN -i ELSE i

RECURSIVE GCD(_, _)
GCD(a, b) == IF b = 0 THEN a ELSE GCD(b, a % b)

\* n/d in lowest terms, d > 0
Rat(n, d) ==
  LET g == GCD(Abs(n), d)
  IN  IF n = 0 THEN [n |-> 0, d |-> 1] ELSE [n |-> n \div g, d |-> d \div g]

RInt(i) == [n |-> i, d |-> 1]

RatAdd(x, y) ==
  LET g == GCD(x.d, y.d)
      l == x.d * (y.d \div g)
  IN  Rat(x.n * (l \div x.d) + y.n * (l \div y.d), l)

RatNeg(x) == [n |-> -x.n, d |-> x.d]

RatSub(x, y) == RatAdd(x, RatNeg(y))

\* cross-cancel before multiplying, so the products stay small
RatMul(x, y) ==
  LET g1 == GCD(Abs(x.n), y.d)
      g2 == GCD(Abs(y.n), x.d)
      a  == IF x.n = 0 THEN 0 ELSE x.n \div g1
      b  == IF y.n = 0 THEN 0 ELSE y.n \div g2
      c  == IF x.n = 0 THEN 1 ELSE y.d \div g1
      e  == IF y.n = 0 THEN 1 ELSE x.d \div g2
  IN  Rat(a * b, c * e)

\* y # 0
RatDiv(x, y) ==
  IF y.n > 0 THEN RatMul(x, [n |-> y.d, d |-> y.n])
             ELSE RatMul(x, [n |-> -y.d, d |-> -y.n])

RatLe(x, y) == RatSub(x, y).n <= 0

RatGe(x, y) == RatLe(y, x)

RatIsInt(x) == x.d = 1

-----------------------------------------------------------------------------
(* JavaScript values *)

Undefined == [kind |-> "undefined"]

Null == [kind |-> "null"]

NaN == [kind |-> "NaN"]

Num(r) == [kind |-> "number", val |-> r]

Bool(b) == [kind |-> "boolean", val |-> b]

Str(s) == [kind |-> "string", val |-> s]

\* the array []: it has no elements (the only arrays of this model), and
\* carries the named (non-index) properties set on it
Arr(props) == [kind |-> "array", props |-> props]

Obj(fields) == [kind |-> "object", fields |-> fields]

NoFields == [k \in {} |-> Undefined]

EmptyObject == Obj(NoFields)

\* ToBoolean: undefined, null, NaN, 0, false and "" are falsy
ToBoolean(v) ==
  CASE v.kind \in {"undefined", "null", "NaN"} -> FALSE
    [] v.kind = "number"  -> v.val.n # 0
    [] v.kind = "boolean" -> v.val
    [] v.kind = "string"  -> v.val # ""
    [] OTHER -> TRUE

\* ToNumber.  The strings of this model are "" and non-numeric texts; the
\* array [] converts through its join(), which is ""; an object converts
\* through "[object Object]".
ToNumber(v) ==
  CASE v.kind = "number"  -> v
    [] v.kind = "null"    -> Num(RInt(0))
    [] v.kind = "boolean" -> Num(RInt(IF v.val THEN 1 ELSE 0))
    [] v.kind = "string"  -> IF v.val = "" THEN Num(RInt(0)) ELSE NaN
    [] v.kind = "array"   -> Num(RInt(0))
    [] OTHER -> NaN

\* x * y
JsMul(x, y) ==
  LET a == ToNumber(x)
      b == ToNumber(y)
  IN  IF a.kind = "NaN" \/ b.kind = "NaN" THEN NaN
      ELSE Num(RatMul(a.val, b.val))

\* x + y on numbers
NumAdd(a, b) ==
  IF a.kind = "NaN" \/ b.kind = "NaN" THEN NaN ELSE Num(RatAdd(a.val, b.val))

\* ToString of the values this model concatenates
JsToString(v) ==
  CASE v.kind = "string" -> v.val
    [] v.kind = "number" /\ RatIsInt(v.val) -> ToString(v.val.n)
    [] v.kind = "boolean" -> IF v.val THEN "true" ELSE "false"
    [] v.kind = "array" -> ""
    [] v.kind = "object" -> "[object Object]"
    [] OTHER -> v.kind

\* x + y: concatenation when either operand is, or converts to, a string
JsAdd(x, y) ==
  IF x.kind \in {"string", "array", "object"} \/ y.kind \in {"string", "array", "object"}
  THEN Str(JsToString(x) \o JsToString(y))
  ELSE NumAdd(ToNumber(x), ToNumber(y))

\* v[k] for a key k that is no index and no built-in property: a TypeError
\* on undefined and null, undefined on the other primitives
GetThrows(v) == v.kind \in {"undefined", "null"}

GetProp(v, k) ==
  CASE v.kind = "object" -> IF k \in DOMAIN v.fields THEN v.fields[k] ELSE Undefined
    [] v.kind = "array"  -> IF k \in DOMAIN v.props THEN v.props[k] ELSE Undefined
    [] OTHER -> Undefined

\* v[k] = x in strict mode (line 6): a TypeError on every primitive
SetThrows(v) == v.kind \notin {"object", "array"}

SetProp(v, k, x) ==
  IF v.kind = "object"
  THEN Obj([j \in DOMAIN v.fields \cup {k} |-> IF j = k THEN x ELSE v.fields[j]])
  ELSE Arr([j \in DOMAIN v.props \cup {k} |-> IF j = k THEN x ELSE v.props[j]])

-----------------------------------------------------------------------------
(* JSON documents and the storage entry *)

JNull == [kind |-> "jnull"]

JNum(r) == [kind |-> "jnumber", val |-> r]

JBool(b) == [kind |-> "jboolean", val |-> b]

JStr(s) == [kind |-> "jstring", val |-> s]

JArr == [kind |-> "jarray"]

JObj(members) == [kind |-> "jobject", members |-> members]

\* getItem returns null
Absent == [kind |-> "absent"]

\* the text ''
EmptyText == [kind |-> "empty"]

\* a text JSON.parse rejects
Unparsable == [kind |-> "unparsable"]

\* a text that is the JSON document doc
Json(doc) == [kind |-> "json", doc |-> doc]

RECURSIVE JsonParse(_)
JsonParse(doc) ==
  CASE doc.kind = "jnull"    -> Null
    [] doc.kind = "jnumber"  -> Num(doc.val)
    [] doc.kind = "jboolean" -> Bool(doc.val)
    [] doc.kind = "jstring"  -> Str(doc.val)
    [] doc.kind = "jarray"   -> Arr(NoFields)
    [] doc.kind = "jobject"  ->
         Obj([k \in DOMAIN doc.members |-> JsonParse(doc.members[k])])

\* JSON.stringify of a value inside an object: NaN is written as null, a
\* property holding undefined is left out, an array's named properties are
\* not written
RECURSIVE JsonStringify(_)
JsonStringify(v) ==
  CASE v.kind \in {"null", "NaN", "undefined"} -> JNull
    [] v.kind = "number"  -> JNum(v.val)
    [] v.kind = "boolean" -> JBool(v.val)
    [] v.kind = "string"  -> JStr(v.val)
    [] v.kind = "array"   -> JArr
    [] v.kind = "object"  ->
         JObj([k \in {j \in DOMAIN v.fields : v.fields[j].kind # "undefined"}
                 |-> JsonStringify(v.fields[k])])

STORAGE_KEY == "timesTableTurboStats"

\* the weight set to one half
EMA_ALPHA_Half == Rat(1, 2)

EMA_ALPHA == Rat(3, 10)

\* how a call ends: by returning a value, or by an uncaught exception
Return(v) == [thrown |-> FALSE, value |-> v]

Throw == [thrown |-> TRUE, value |-> Undefined]

\* JSON.parse throws a SyntaxError
JsonParseThrows(entry) == entry.kind \in {"empty", "unparsable"}

\* lines 44-48 without the try: the SyntaxError leaves loadStats
loadStats_NoCatch(entry) ==
  IF entry.kind \in {"absent", "empty"} THEN Return(EmptyObject)
  ELSE IF JsonParseThrows(entry) THEN Throw
  ELSE Return(JsonParse(entry.doc))

\* getItem gives null for an absent entry; null and '' are falsy (line 46);
\* a SyntaxError of JSON.parse is caught (line 47)
loadStats(entry) ==
  IF entry.kind \in {"absent", "empty"} THEN Return(EmptyObject)
  ELSE IF JsonParseThrows(entry) THEN Return(EmptyObject)
  ELSE Return(JsonParse(entry.doc))

\* JSON.stringify(undefined) is undefined, which setItem stores as the
\* text "undefined"
saveStats(stats) ==
  IF stats.kind = "undefined" THEN Unparsable ELSE Json(JsonStringify(stats))

\* the key of the fact, the smaller operand first
statKey_Unordered(a, b) ==
  IF a <= b THEN ToString(a) \o "_" \o ToString(b)
  ELSE ToString(b) \o "_" \o ToString(a)

statKey(a, b) == ToString(a) \o "_" \o ToString(b)

\* the speed score without the clamp at 8 s
speedScore_NoUpperClamp(timeSec) ==
  IF RatLe(timeSec, RInt(2)) THEN RInt(100)
  ELSE RatSub(RInt(100),
              RatMul(RatDiv(RatSub(timeSec, RInt(2)), RInt(6)), RInt(100)))

speedScore(timeSec) ==
  IF RatLe(timeSec, RInt(2)) THEN RInt(100)
  ELSE IF RatGe(timeSec, RInt(8)) THEN RInt(0)
  ELSE RatSub(RInt(100),
              RatMul(RatDiv(RatSub(timeSec, RInt(2)), RInt(6)), RInt(100)))

\* the weights of accuracy and speed exchanged
computeScore_WeightsSwapped(correct, timeSec) ==
  LET accScore == IF correct THEN RInt(100) ELSE RInt(0)
  IN  RatAdd(RatMul(accScore, Rat(3, 10)),
             RatMul(speedScore(timeSec), Rat(7, 10)))

computeScore(correct, timeSec) ==
  LET accScore == IF correct THEN RInt(100) ELSE RInt(0)
  IN  RatAdd(RatMul(accScore, Rat(7, 10)),
             RatMul(speedScore(timeSec), Rat(3, 10)))

\* lines 82-84, on the value rec that stats[key] holds (an object or an array)
\* the new score written over the old confidence
emaRecord_Overwrites(rec, newScore) ==
  LET rec1 == SetProp(rec, "confidence", newScore)
  IN  SetProp(rec1, "attempts", JsAdd(GetProp(rec1, "attempts"), Num(RInt(1))))

emaRecord(rec, newScore) ==
  LET conf == NumAdd(JsMul(GetProp(rec, "confidence"),
                           Num(RatSub(RInt(1), EMA_ALPHA))),
                     JsMul(newScore, Num(EMA_ALPHA)))
      rec1 == SetProp(rec, "confidence", conf)
  IN  SetProp(rec1, "attempts", JsAdd(GetProp(rec1, "attempts"), Num(RInt(1))))

\* a first record smoothed from 0 as if it were an update
freshRecord_Smoothed(newScore) ==
  Obj([confidence |-> JsMul(newScore, Num(EMA_ALPHA)),
       attempts |-> Num(RInt(1))])

\* line 86
freshRecord(newScore) ==
  Obj([confidence |-> newScore, attempts |-> Num(RInt(1))])

\* an update that saves the one record it touched in place of the table
updateStats_SavesOneRecord(entry, a, b, correct, timeSec) ==
  LET loaded   == loadStats(entry)
      stats    == loaded.value
      key      == statKey(a, b)
      newScore == Num(computeScore(correct, timeSec))
      throw    == [thrown |-> TRUE, storage |-> entry]
      save(s)  == [thrown |-> FALSE, storage |-> saveStats(s)]
  IN  IF loaded.thrown \/ GetThrows(stats) THEN throw
      ELSE LET rec == GetProp(stats, key)
           IN  IF ToBoolean(rec)
               THEN IF SetThrows(rec) THEN throw
                    ELSE save(SetProp(EmptyObject, key, emaRecord(rec, newScore)))
               ELSE IF SetThrows(stats) THEN throw
                    ELSE save(SetProp(EmptyObject, key, freshRecord(newScore)))

\* The storage entry updateStats leaves, and whether it ended by an
\* uncaught exception (then nothing was saved).
updateStats(entry, a, b, correct, timeSec) ==
  LET loaded   == loadStats(entry)
      stats    == loaded.value
      key      == statKey(a, b)
      newScore == Num(computeScore(correct, timeSec))
      throw    == [thrown |-> TRUE, storage |-> entry]
      save(s)  == [thrown |-> FALSE, storage |-> saveStats(s)]
  IN  IF loaded.thrown \/ GetThrows(stats) THEN throw
      ELSE LET rec == GetProp(stats, key)
           IN  IF ToBoolean(rec)
               THEN IF SetThrows(rec) THEN throw
                    ELSE save(SetProp(stats, key, emaRecord(rec, newScore)))
               ELSE IF SetThrows(stats) THEN throw
                    ELSE save(SetProp(stats, key, freshRecord(newScore)))

\* Math.round
MathRound(v) ==
  LET x == ToNumber(v)
  IN  IF x.kind = "NaN" THEN NaN
      ELSE LET y == RatAdd(x.val, Rat(1, 2)) IN Num(RInt(y.n \div y.d))

\* x >= n and x > n for a number n: false when x converts to NaN
JsGe(x, n) ==
  LET a == ToNumber(x) IN a.kind = "number" /\ RatGe(a.val, RInt(n))

JsGt(x, n) ==
  LET a == ToNumber(x) IN a.kind = "number" /\ ~RatLe(a.val, RInt(n))

JsLe(x, n) ==
  LET a == ToNumber(x) IN a.kind = "number" /\ RatLe(a.val, RInt(n))

\* from + (to - from) * t, rounded
Blend(from, to, t) ==
  MathRound(NumAdd(Num(RInt(from)), JsMul(Num(RInt(to - from)), t)))

\* the three channels of the rgb(...) text
confidenceColor(value) ==
  IF JsLe(value, 50)
  THEN LET t == Num(RatDiv(value.val, RInt(50)))
       IN  <<Blend(239, 234, t), Blend(68, 179, t), Blend(68, 8, t)>>
  ELSE LET t == IF value.kind = "number"
                THEN Num(RatDiv(RatSub(value.val, RInt(50)), RInt(50)))
                ELSE NaN
       IN  <<Blend(234, 34, t), Blend(179, 197, t), Blend(8, 94, t)>>

\* one <td> of the grid (lines 271-282)
GridCell(stats, r, c) ==
  LET s == GetProp(stats, statKey(r, c))
  IN  IF ToBoolean(s) /\ JsGe(GetProp(s, "attempts"), 5)
      THEN LET val == MathRound(GetProp(s, "confidence"))
           IN  [scored |-> TRUE, val |-> val, bg |-> confidenceColor(val),
                color |-> IF JsGt(val, 55) THEN "#111" ELSE "#fff",
                attempts |-> GetProp(s, "attempts")]
      ELSE [scored |-> FALSE,
            attempts |-> IF ToBoolean(s) THEN GetProp(s, "attempts") ELSE Undefined,
            tip |-> IF ToBoolean(s) THEN "attempts" ELSE "no data"]

GridCoords == (1..12) \X (1..12)

\* What renderStatsGrid puts on the page: the cells, and whether the
\* "no scores yet" message is visible.  stats[key] on null is a TypeError.
renderStatsGrid(entry) ==
  LET loaded == loadStats(entry)
      stats  == loaded.value
  IN  IF loaded.thrown \/ GetThrows(stats) THEN Throw
      ELSE LET cells == [rc \in GridCoords |-> GridCell(stats, rc[1], rc[2])]
           IN  Return([kind |-> "grid", cells |-> cells,
                       emptyMsgVisible |-> ~\E rc \in GridCoords : cells[rc].scored])

-----------------------------------------------------------------------------
(* Bounds and inputs *)

\* operands of the direct calls of updateStats
Operands == {7, 12}

\* elapsed times (ms) between showQuestion and submitAnswer
ElapsedMs == {1000, 5000, 9000}

\* direct calls of updateStats made in one behaviour
MaxUpdates == 3

\* direct calls of updateStats made on an entry of any content
MaxLoadUpdates == 1

\* the length of the patterns of values that Math.random() repeats
RandPeriod == 3

\* rounds started in one behaviour
MaxRounds == 2

\* answers accepted in one behaviour, over all its rounds
MaxAnswers == 16

\* the times computeScore is called with: 0, 0.1, ..., MaxTicks / 10 seconds
MaxTicks == 100

Seconds(ms) == Rat(ms, 1000)

-----------------------------------------------------------------------------
(* The state after the script has run (lines 31-37), on the start screen  *)

NoCall == [op |-> "none"]

\* how the learner answers: right or wrong, and after how long (ms)
Habit(correct, ms) == [correct |-> correct, ms |-> ms]

FastestMs == CHOOSE m \in ElapsedMs : \A n \in ElapsedMs : m <= n

SlowestMs == CHOOSE m \in ElapsedMs : \A n \in ElapsedMs : m >= n

\* right, after the shortest time
Plain == Habit(TRUE, FastestMs)

\* wrong, after the longest time
Lapse == Habit(FALSE, SlowestMs)

\* the learner of the scenario: right after the shortest time on the first
\* presentation of a fact in the round, wrong after the longest on a repeat
Scripted == [scripted |-> TRUE]

\* the page before any handler has run: the texts and classes the
\* handlers write ('' where the markup's own content stands)
InitDom ==
  [question |-> <<>>, progress |-> 0, answerDisplay |-> <<>>,
   answerFlash |-> "", feedbackOverlay |-> "", feedbackText |-> "",
   resultsTitle |-> "", resultsScore |-> 0, resultsDetails |-> <<>>,
   statsModalOpen |-> FALSE]

InitRound ==
  /\ screen = "start"
  /\ questions = <<>>
  /\ currentIndex = 0
  /\ currentAnswer = <<>>
  /\ questionStartTime = 0
  /\ roundResults = <<>>
  /\ feedbackTimeout = 0
  /\ isShowingFeedback = FALSE
  /\ timers = {}
  /\ dom = InitDom
  /\ rounds = 0
  /\ answered = 0

InitGame == InitRound /\ habit = Plain

InitCall ==
  /\ calls = 0
  /\ lastCall = NoCall
  /\ returned = Undefined
  /\ thrown = FALSE

-----------------------------------------------------------------------------
(* The persisted table, as the code reads it *)

persisted == loadStats(storage).value

HasRecord(entry, key) ==
  LET t == loadStats(entry).value
  IN  t.kind = "object" /\ key \in DOMAIN t.fields

Record(entry, key) == loadStats(entry).value.fields[key]

Keys(entry) ==
  LET t == loadStats(entry).value
  IN  IF t.kind = "object" THEN DOMAIN t.fields ELSE {}

\* {confidence: number, attempts: number}
IsFactRecord(v) ==
  /\ v.kind = "object"
  /\ DOMAIN v.fields = {"confidence", "attempts"}
  /\ v.fields.confidence.kind = "number"
  /\ v.fields.attempts.kind = "number"

\* the keys "<a>_<b>" of the twelve tables
FactKeys == {statKey(rc[1], rc[2]) : rc \in GridCoords}

\* a mapping from "<a>_<b>" keys to {confidence: number, attempts: number}
IsStatsTable(v) ==
  /\ v.kind = "object"
  /\ DOMAIN v.fields \subseteq FactKeys
  /\ \A k \in DOMAIN v.fields : IsFactRecord(v.fields[k])

-----------------------------------------------------------------------------
(* Direct calls of the store's operations *)

CallUpdateStats(a, b, correct, timeSec) ==
  LET r == updateStats(storage, a, b, correct, timeSec)
  IN  /\ storage' = r.storage
      /\ thrown' = r.thrown
      /\ returned' = Undefined
      /\ calls' = calls + 1
      /\ lastCall' = [op |-> "updateStats", a |-> a, b |-> b,
                      correct |-> correct, timeSec |-> timeSec]
      /\ UNCHANGED gameVars

InitStats == storage = Absent /\ InitGame /\ InitCall

NextStats ==
  \E a \in Operands, b \in Operands, correct \in BOOLEAN, ms \in ElapsedMs :
    /\ calls < MaxUpdates
    /\ CallUpdateStats(a, b, correct, Seconds(ms))

SpecStats == InitStats /\ [][NextStats]_vars

\* C1: starting from an empty table, after any sequence of updateStats calls
\* every record's confidence is a number within [0, 100].
C1_ConfidenceInRange ==
  \A k \in Keys(storage) :
    LET c == Record(storage, k).fields.confidence
    IN  /\ c.kind = "number"
        /\ RatGe(c.val, RInt(0))
        /\ RatLe(c.val, RInt(100))

\* a record that three updates went into
C1_Witness ==
  \E k \in Keys(storage) : Record(storage, k).fields.attempts = Num(RInt(3))

\* C3: for a key with no record in the persisted table, updateStats creates
\* the record {confidence: computeScore(correct, timeSec), attempts: 1}.
C3_FreshKey ==
  [][LET c   == lastCall'
         key == statKey(c.a, c.b)
     IN  (c.op = "updateStats" /\ calls' # calls /\ ~HasRecord(storage, key))
           => /\ HasRecord(storage', key)
              /\ Record(storage', key) =
                   Obj([confidence |-> Num(computeScore(c.correct, c.timeSec)),
                        attempts |-> Num(RInt(1))])]_vars

\* a first update of one key made after another key got its record
C3_Witness ==
  /\ lastCall.op = "updateStats"
  /\ Cardinality(Keys(storage)) = 2
  /\ Record(storage, statKey(lastCall.a, lastCall.b)).fields.attempts = Num(RInt(1))

\* C4: an update of an existing record sets confidence to
\* 0.7 * old + 0.3 * newScore and adds exactly 1 to attempts; two updates of
\* a fresh key scoring s1 then s2 leave confidence s1 * 0.7 + s2 * 0.3 and
\* attempts 2.
C4_Ema ==
  [][LET c   == lastCall'
         key == statKey(c.a, c.b)
         s2  == computeScore(c.correct, c.timeSec)
     IN  (c.op = "updateStats" /\ calls' # calls /\ HasRecord(storage, key))
           => LET old == Record(storage, key).fields
                  new == Record(storage', key).fields
              IN  /\ new.confidence =
                       Num(RatAdd(RatMul(old.confidence.val, Rat(7, 10)),
                                  RatMul(s2, Rat(3, 10))))
                  /\ new.attempts = Num(RInt(old.attempts.val.n + 1))
                  /\ ( /\ lastCall.op = "updateStats"
                       /\ statKey(lastCall.a, lastCall.b) = key
                       /\ old.attempts = Num(RInt(1)) )
                       => LET s1 == computeScore(lastCall.correct, lastCall.timeSec)
                          IN  /\ new.confidence =
                                   Num(RatAdd(RatMul(s1, Rat(7, 10)),
                                              RatMul(s2, Rat(3, 10))))
                              /\ new.attempts = Num(RInt(2))]_vars

\* the second of two updates of a fresh key, scoring 100 then 0
C4_Witness ==
  /\ lastCall.op = "updateStats"
  /\ calls = 2
  /\ Keys(storage) = {statKey(lastCall.a, lastCall.b)}
  /\ Record(storage, statKey(lastCall.a, lastCall.b)) =
       Obj([confidence |-> Num(RInt(70)), attempts |-> Num(RInt(2))])

\* C15: updateStats(a, b, ...) changes only the record under the ordered key
\* "<a>_<b>": every other record of the persisted table is unchanged, the
\* one under "<b>_<a>" too when a # b.
C15_OnlyOwnKey ==
  [][LET c     == lastCall'
         key   == ToString(c.a) \o "_" \o ToString(c.b)
         other == ToString(c.b) \o "_" \o ToString(c.a)
     IN  (c.op = "updateStats" /\ calls' # calls)
           => /\ Keys(storage') = Keys(storage) \cup {key}
              /\ \A k \in Keys(storage) \ {key} :
                   Record(storage', k) = Record(storage, k)
              /\ c.a # c.b =>
                   /\ other # key
                   /\ HasRecord(storage', other) = HasRecord(storage, other)
                   /\ HasRecord(storage, other)
                        => Record(storage', other) = Record(storage, other)]_vars

\* 12 x 7 has been updated while 7 x 12 had a record: the two records differ
C15_Witness ==
  /\ lastCall.op = "updateStats"
  /\ lastCall.a = 12 /\ lastCall.b = 7
  /\ HasRecord(storage, "7_12") /\ HasRecord(storage, "12_7")
  /\ Record(storage, "7_12").fields.attempts = Num(RInt(2))
  /\ Record(storage, "12_7").fields.attempts = Num(RInt(1))

-----------------------------------------------------------------------------
(* computeScore on its own *)

CallComputeScore(correct, timeSec) ==
  /\ returned' = Num(computeScore(correct, timeSec))
  /\ thrown' = FALSE
  /\ lastCall' = [op |-> "computeScore", correct |-> correct, timeSec |-> timeSec]
  /\ UNCHANGED <<storage, calls, gameVars>>

NextScore ==
  \E correct \in BOOLEAN, i \in 0..MaxTicks :
    CallComputeScore(correct, Rat(i, 10))

SpecScore == InitStats /\ [][NextScore]_vars

\* C5: computeScore(true, t) is 100 for t <= 2, 70 for t >= 8 and 85 for
\* t = 5; computeScore(false, t) is 0.3 * speedScore(t), which is 30 for
\* t <= 2, 0 for t >= 8 and 0.3 * (100 - ((t - 2) / 6) * 100) = 5 * (8 - t) in
\* between; the result is within [0, 100].
C5_ScoreValues ==
  lastCall.op = "computeScore" =>
    LET t == lastCall.timeSec
        r == returned.val
        early == RatLe(t, RInt(2))
        late  == RatGe(t, RInt(8))
    IN  /\ returned.kind = "number"
        /\ RatGe(r, RInt(0)) /\ RatLe(r, RInt(100))
        /\ (lastCall.correct /\ early) => r = RInt(100)
        /\ (lastCall.correct /\ late) => r = RInt(70)
        /\ (lastCall.correct /\ t = RInt(5)) => r = RInt(85)
        /\ (~lastCall.correct /\ early) => r = RInt(30)
        /\ (~lastCall.correct /\ late) => r = RInt(0)
        /\ (~lastCall.correct /\ ~early /\ ~late)
             => r = RatMul(RInt(5), RatSub(RInt(8), t))
        /\ (lastCall.correct /\ ~early /\ ~late)
             => r = RatAdd(RInt(70), RatMul(RInt(5), RatSub(RInt(8), t)))

\* a wrong answer given after 3.5 s scores 22.5
C5_Witness ==
  /\ lastCall.op = "computeScore"
  /\ ~lastCall.correct
  /\ lastCall.timeSec = Rat(35, 10)
  /\ returned = Num(Rat(45, 2))

-----------------------------------------------------------------------------
(* The store's operations on any content of the storage entry *)

JRecord(confidence, attempts) ==
  JObj([confidence |-> confidence, attempts |-> attempts])

OneMember(key, doc) == JObj([k \in {key} |-> doc])

\* contents the entry may hold when the page loads: nothing, texts that are
\* no JSON, JSON of another shape than the table's, and tables
StorageContents ==
  { Absent, EmptyText, Unparsable,
    Json(JNull), Json(JNum(RInt(5))), Json(JNum(RInt(0))), Json(JBool(TRUE)),
    Json(JStr("x")), Json(JArr), Json(JObj(NoFields)),
    Json(OneMember("7_12", JNum(RInt(5)))),
    Json(OneMember("7_12", JNull)),
    Json(OneMember("7_12", JStr("x"))),
    Json(OneMember("7_12", JArr)),
    Json(OneMember("7_12", JObj(NoFields))),
    Json(OneMember("7_12", JRecord(JStr("x"), JStr("x")))),
    Json(OneMember("7_12", JRecord(JNum(RInt(50)), JNum(RInt(4))))),
    Json(OneMember("12_7", JRecord(JNum(RInt(85)), JNum(RInt(5))))),
    Json(OneMember("version", JNum(RInt(2)))) }

CallLoadStats ==
  LET r == loadStats(storage)
  IN  /\ returned' = r.value
      /\ thrown' = r.thrown
      /\ lastCall' = [op |-> "loadStats"]
      /\ UNCHANGED <<storage, calls, gameVars>>

CallRenderStatsGrid ==
  LET r == renderStatsGrid(storage)
  IN  /\ returned' = r.value
      /\ thrown' = r.thrown
      /\ lastCall' = [op |-> "renderStatsGrid"]
      /\ UNCHANGED <<storage, calls, gameVars>>

InitLoad == storage \in StorageContents /\ InitGame /\ InitCall

NextLoad ==
  \/ CallLoadStats
  \/ CallRenderStatsGrid
  \/ \E a \in Operands, b \in Operands, correct \in BOOLEAN, ms \in ElapsedMs :
       /\ calls < MaxLoadUpdates
       /\ CallUpdateStats(a, b, correct, Seconds(ms))

SpecLoad == InitLoad /\ [][NextLoad]_vars

\* C6: loadStats returns an empty table, and does not raise, when the entry
\* is missing or holds a text that cannot be parsed.
C6_LoadFailsSoft ==
  (lastCall.op = "loadStats" /\ storage.kind \in {"absent", "empty", "unparsable"})
    => (~thrown /\ returned = EmptyObject)

\* loadStats has returned on an unparsable text
C6_Witness ==
  lastCall.op = "loadStats" /\ storage = Unparsable /\ returned = EmptyObject

\* C7: when the entry parses but is no mapping from "<a>_<b>" keys to
\* {confidence: number, attempts: number} records, loadStats returns an
\* empty table.
C7_ShapeMismatchDiscarded ==
  (lastCall.op = "loadStats" /\ storage.kind = "json"
     /\ ~IsStatsTable(JsonParse(storage.doc)))
    => returned = EmptyObject

\* C8: whatever the entry holds, updateStats and the stats-grid read do not
\* raise, and updateStats leaves a well-formed table persisted.
C8_NoOperationRaises ==
  /\ lastCall.op \in {"updateStats", "renderStatsGrid", "loadStats"} => ~thrown
  /\ lastCall.op = "updateStats"
       => (storage.kind = "json" /\ IsStatsTable(JsonParse(storage.doc)))

-----------------------------------------------------------------------------
(* Question generation *)

TOTAL_QUESTIONS == 15

\* the largest factor (the literal 12 of lines 110, 111 and 118)
MAX_FACTOR == 12

\* the calls of Math.random() one generateQuestions can make
MaxDraws == 3 * TOTAL_QUESTIONS

\* values Math.random() may return: 0, just below and exactly one half, and
\* a value whose product with 12 reaches 11
RandValues == {Rat(0, 1), Rat(11, 24), Rat(1, 2), Rat(23, 24)}

\* a stream: the values successive calls of Math.random() return.  One that
\* repeats the pattern p over and over:
PatternStream(p) == [k \in 1..MaxDraws |-> p[((k - 1) % Len(p)) + 1]]

\* and one of a congruential generator of period 24, seeded with seed:
RECURSIVE LcgState(_, _)
LcgState(seed, k) ==
  IF k = 0 THEN seed % 24 ELSE (13 * LcgState(seed, k - 1) + 7) % 24

LcgStream(seed) == [k \in 1..MaxDraws |-> Rat(LcgState(seed, k), 24)]

RandomStreams ==
  {PatternStream(p) : p \in [1..RandPeriod -> RandValues]}
    \cup {LcgStream(seed) : seed \in 0..23}

\* the k-th value (k = 1, 2, ...) of the stream rnd
Draw(rnd, k) == rnd[k]

\* Math.floor
MathFloor(x) == x.n \div x.d

\* Math.floor(Math.random() * n)
RandomBelow(rnd, k, n) == MathFloor(RatMul(Draw(rnd, k), RInt(n)))

\* The loop of lines 97-100 from index i (counted from 0) down, its first
\* call of Math.random() being the k-th of the stream.
RECURSIVE shuffleFrom(_, _, _, _)
shuffleFrom(arr, i, rnd, k) ==
  IF i > 0
  THEN LET j == RandomBelow(rnd, k, i + 1)
       IN  shuffleFrom([arr EXCEPT ![i + 1] = arr[j + 1], ![j + 1] = arr[i + 1]],
                       i - 1, rnd, k + 1)
  ELSE arr

shuffle(arr, rnd, k) == shuffleFrom(arr, Len(arr) - 1, rnd, k)

\* the dataset.table texts of the buttons, and parseInt(table, 10) on them
TableModes == {ToString(n) : n \in 1..MAX_FACTOR}

Modes == {"mixed"} \cup TableModes

parseInt10(table) == CHOOSE n \in 0..999 : ToString(n) = table

\* the "+ 1" of lines 110-111 forgotten
mixedQuestions_FromZero(rnd) ==
  [i \in 1..TOTAL_QUESTIONS |->
     [a |-> RandomBelow(rnd, 2 * i - 1, MAX_FACTOR),
      b |-> RandomBelow(rnd, 2 * i, MAX_FACTOR)]]

\* lines 109-113: each question takes two values of the stream
mixedQuestions(rnd) ==
  [i \in 1..TOTAL_QUESTIONS |->
     [a |-> RandomBelow(rnd, 2 * i - 1, MAX_FACTOR) + 1,
      b |-> RandomBelow(rnd, 2 * i, MAX_FACTOR) + 1]]

\* lines 117-119: the pool of table n after shuffle(pool)
shuffledPool(table, rnd) ==
  LET n == parseInt10(table)
  IN  shuffle([i \in 1..MAX_FACTOR |-> [a |-> n, b |-> i]], rnd, 1)

\* the index of line 122 taken modulo one less than the pool's length
tableQuestions_SkipsPool(table, rnd) ==
  LET pool == shuffledPool(table, rnd)
      qs   == [i \in 1..TOTAL_QUESTIONS |-> pool[((i - 1) % (Len(pool) - 1)) + 1]]
  IN  shuffle(qs, rnd, Len(pool))

\* the repeats taken from the end of the pool
tableQuestions_RepeatsLast(table, rnd) ==
  LET pool == shuffledPool(table, rnd)
      qs   == [i \in 1..TOTAL_QUESTIONS |->
                 IF i <= Len(pool) THEN pool[i] ELSE pool[2 * Len(pool) + 1 - i]]
  IN  shuffle(qs, rnd, Len(pool))

\* lines 115-124: the pool, shuffled, indexed cyclically, shuffled again
\* (shuffle(pool) takes Len(pool) - 1 values of the stream)
tableQuestions(table, rnd) ==
  LET pool == shuffledPool(table, rnd)
      qs   == [i \in 1..TOTAL_QUESTIONS |-> pool[((i - 1) % Len(pool)) + 1]]
  IN  shuffle(qs, rnd, Len(pool))

\* the number of values generateQuestions has taken before line 128
DrawsBeforeDisplay(table) ==
  IF table = "mixed" THEN 2 * TOTAL_QUESTIONS
  ELSE (MAX_FACTOR - 1) + (TOTAL_QUESTIONS - 1)

\* the swap of line 129 writing q.b twice
displayQuestion_SwapTypo(q, r) ==
  IF ~RatGe(r, Rat(1, 2))
  THEN [a |-> q.b, b |-> q.b, answer |-> q.a * q.b]
  ELSE [a |-> q.a, b |-> q.b, answer |-> q.a * q.b]

\* lines 128-131 for one question, r being the value of Math.random()
displayQuestion(q, r) ==
  IF ~RatGe(r, Rat(1, 2))
  THEN [a |-> q.b, b |-> q.a, answer |-> q.a * q.b]
  ELSE [a |-> q.a, b |-> q.b, answer |-> q.a * q.b]

generateQuestions(table, rnd) ==
  LET qs == IF table = "mixed" THEN mixedQuestions(rnd)
            ELSE tableQuestions(table, rnd)
  IN  [i \in 1..Len(qs) |->
         displayQuestion(qs[i], Draw(rnd, DrawsBeforeDisplay(table) + i))]

CallGenerateQuestions(table, rnd) ==
  /\ returned' = [kind |-> "questions", qs |-> generateQuestions(table, rnd)]
  /\ thrown' = FALSE
  /\ lastCall' = [op |-> "generateQuestions", table |-> table, rnd |-> rnd]
  /\ UNCHANGED <<storage, calls, gameVars>>

\* the mode and the stream of the call to come
InitGen ==
  /\ storage = Absent
  /\ InitGame
  /\ calls = 0
  /\ returned = Undefined
  /\ thrown = FALSE
  /\ \E table \in Modes, rnd \in RandomStreams :
       lastCall = [op |-> "start", table |-> table, rnd |-> rnd]

NextGen ==
  /\ lastCall.op = "start"
  /\ CallGenerateQuestions(lastCall.table, lastCall.rnd)

SpecGen == InitGen /\ [][NextGen]_vars

\* C9: in every mode and for every outcome of the random choices,
\* generateQuestions returns exactly 15 questions with both displayed
\* operands in 1..12; in table mode n every question shows n as an operand.
C9_FifteenInRange ==
  lastCall.op = "generateQuestions" =>
    LET qs == returned.qs
    IN  /\ Len(qs) = 15
        /\ \A i \in 1..Len(qs) : qs[i].a \in 1..12 /\ qs[i].b \in 1..12
        /\ lastCall.table # "mixed"
             => \A i \in 1..Len(qs) :
                  ToString(qs[i].a) = lastCall.table \/ ToString(qs[i].b) = lastCall.table

\* a round of table 7 that shows 7 first in one question and second in another
C9_Witness ==
  /\ lastCall.op = "generateQuestions"
  /\ lastCall.table = "7"
  /\ \E i, j \in 1..Len(returned.qs) :
       /\ returned.qs[i].a = 7 /\ returned.qs[i].b # 7
       /\ returned.qs[j].b = 7 /\ returned.qs[j].a # 7

\* C10: every question returned, in both modes and swapped for display or
\* not, has answer = a * b for its displayed operands.
C10_AnswerIsProduct ==
  lastCall.op = "generateQuestions" =>
    \A i \in 1..Len(returned.qs) :
      returned.qs[i].answer = returned.qs[i].a * returned.qs[i].b

\* a round of table 9 with a swapped question (9 shown second) and an
\* unswapped one
C10_Witness ==
  /\ lastCall.op = "generateQuestions"
  /\ lastCall.table = "9"
  /\ \E i, j \in 1..Len(returned.qs) :
       /\ returned.qs[i].b = 9 /\ returned.qs[i].a # 9
       /\ returned.qs[j].a = 9 /\ returned.qs[j].b # 9
       /\ returned.qs[i].answer = 9 * returned.qs[i].a
       /\ returned.qs[j].answer = 9 * returned.qs[j].b

\* a question read as an unordered pair
Fact(q) == {q.a, q.b}

\* how many of the questions qs show the fact f
Presentations(qs, f) == Cardinality({j \in 1..Len(qs) : Fact(qs[j]) = f})

\* C11: for every table n and every outcome of the shuffles and the display
\* swaps, the 15 questions of generateQuestions(n), read as unordered pairs,
\* contain each of the facts {n,1} ... {n,12} at least once.
C11_EveryFactPresented ==
  (lastCall.op = "generateQuestions" /\ lastCall.table # "mixed") =>
    LET n == parseInt10(lastCall.table)
    IN  \A i \in 1..12 : Presentations(returned.qs, {n, i}) >= 1

\* a round of table 7 that shows one fact in both orders
C11_Witness ==
  /\ lastCall.op = "generateQuestions"
  /\ lastCall.table = "7"
  /\ \E i, j \in 1..Len(returned.qs) :
       /\ returned.qs[i].a = 7 /\ returned.qs[i].b # 7
       /\ returned.qs[j].a = returned.qs[i].b /\ returned.qs[j].b = 7

\* C17: for every table n and every outcome of the shuffles, of the twelve
\* facts of the table exactly 3 are among the 15 questions exactly twice and
\* 9 exactly once, none three times or more, and the 3 repeated facts are
\* those at the first 3 positions of the shuffled pool.
C17_ThreeRepeats ==
  (lastCall.op = "generateQuestions" /\ lastCall.table # "mixed") =>
    LET n     == parseInt10(lastCall.table)
        qs    == returned.qs
        facts == {{n, i} : i \in 1..12}
        twice == {f \in facts : Presentations(qs, f) = 2}
        once  == {f \in facts : Presentations(qs, f) = 1}
        pool  == shuffledPool(lastCall.table, lastCall.rnd)
    IN  /\ Cardinality(twice) = 3
        /\ Cardinality(once) = 9
        /\ \A j \in 1..Len(qs) : Fact(qs[j]) \in facts
        /\ twice = {Fact(pool[i]) : i \in 1..3}

\* a round of table 12 whose pool the shuffle has reordered: 12 x 1 is not
\* among the repeats, and 12 x 12, the square, is
C17_Witness ==
  /\ lastCall.op = "generateQuestions"
  /\ lastCall.table = "12"
  /\ Presentations(returned.qs, {12, 1}) = 1
  /\ Presentations(returned.qs, {12}) = 2

-----------------------------------------------------------------------------
(* The round: the event handlers of lines 149-235 and 306-366 *)

MAX_DIGITS == 3

\* parseInt(currentAnswer, 10) on a non-empty text of digits
RECURSIVE parseDigits(_)
parseDigits(ds) ==
  IF ds = <<>> THEN 0
  ELSE 10 * parseDigits(SubSeq(ds, 1, Len(ds) - 1)) + ds[Len(ds)]

\* the decimal digits of n
RECURSIVE Digits(_)
Digits(n) == IF n < 10 THEN <<n>> ELSE Append(Digits(n \div 10), n % 10)

IsPrefix(p, t) == Len(p) <= Len(t) /\ SubSeq(t, 1, Len(p)) = p

\* A screen's controls can be clicked while it is the active screen and the
\* stats modal does not cover it.
Clickable(s) == screen = s /\ ~dom.statsModalOpen

\* The learner plays rounds of the GameModes, Math.random() running from
\* one of the GameSeeds.  The learner answers right and after the shortest
\* time until, at an answer of their choosing, they tire: from then on every
\* answer is of one kind, right or wrong and after one elapsed time.  A
\* wrong answer is the sum of the operands (one more when that is the
\* product).  The learner types the digits of the answer they give, and
\* presses Enter on nothing or on the whole of it.
GameModes == {"mixed", "9"}

GameSeeds == {0}

GameStreams == {LcgStream(seed) : seed \in GameSeeds}

WrongAnswer(q) == IF q.a + q.b # q.answer THEN q.a + q.b ELSE q.answer + 1

\* in a round an answer comes after the shortest or the longest time
GameElapsedMs == {FastestMs, SlowestMs}

\* whether the question at index (from 0) shows a fact that an earlier
\* question of qs has shown, in either order
IsRepeat(qs, index) == \E j \in 1..index : Fact(qs[j]) = Fact(qs[index + 1])

HabitsOpen ==
  IF habit = Plain THEN {Habit(c, ms) : c \in BOOLEAN, ms \in GameElapsedMs}
  ELSE IF habit = Scripted
  THEN {IF IsRepeat(questions, currentIndex) THEN Lapse ELSE Plain}
  ELSE {habit}

AnswersTried(q) ==
  {Digits(IF h.correct THEN q.answer ELSE WrongAnswer(q)) : h \in HabitsOpen}

DigitsTried ==
  IF isShowingFeedback \/ Len(currentAnswer) >= MAX_DIGITS
       \/ currentIndex >= Len(questions)
  THEN 0..9
  ELSE {d \in 0..9 : \E t \in AnswersTried(questions[currentIndex + 1]) :
                       IsPrefix(Append(currentAnswer, d), t)}

\* lines 159-165 on the page; the question is questions[index]
showQuestionDom(d, q, index) ==
  [d EXCEPT !.question = <<q.a, q.b>>, !.answerDisplay = <<>>,
            !.answerFlash = "", !.progress = index + 1]

\* the thresholds of lines 219-220 compared with > in place of >=
resultsTitle_StrictThresholds(correctCount) ==
  IF correctCount = TOTAL_QUESTIONS THEN "Perfect Round!"
  ELSE IF correctCount > 12 THEN "Amazing!"
  ELSE IF correctCount > 8 THEN "Great Job!"
  ELSE "Keep Practising!"

\* lines 216-232 on the page
resultsTitle(correctCount) ==
  IF correctCount = TOTAL_QUESTIONS THEN "Perfect Round!"
  ELSE IF correctCount >= 12 THEN "Amazing!"
  ELSE IF correctCount >= 8 THEN "Great Job!"
  ELSE "Keep Practising!"

showResultsDom(d, results) ==
  LET right == SelectSeq(results, LAMBDA r : r.correct)
      wrongOnes == SelectSeq(results, LAMBDA r : ~r.correct)
  IN  [d EXCEPT !.resultsTitle = resultsTitle(Len(right)),
                !.resultsScore = Len(right),
                !.resultsDetails =
                   [i \in 1..Len(wrongOnes) |->
                      [a |-> wrongOnes[i].a, b |-> wrongOnes[i].b,
                       expected |-> wrongOnes[i].expected,
                       userAnswer |-> wrongOnes[i].userAnswer]]]

\* an id setTimeout has not handed out among the pending timers, and that
\* feedbackTimeout does not hold
FreshTimerId ==
  CHOOSE id \in 1..(Cardinality(timers) + 2) :
    id # feedbackTimeout /\ \A t \in timers : t.id # id

\* startGame without line 152: the history of the round before is kept
StartGame_KeepsHistory(table, rnd) ==
  /\ Clickable("start")
  /\ rounds < MaxRounds
  /\ rounds' = rounds + 1
  /\ LET qs == generateQuestions(table, rnd)
     IN  /\ questions' = qs
         /\ dom' = showQuestionDom(dom, qs[1], 0)
  /\ currentIndex' = 0
  /\ currentAnswer' = <<>>
  /\ screen' = "game"
  /\ questionStartTime' = 0
  /\ UNCHANGED <<storage, roundResults, feedbackTimeout, isShowingFeedback,
                 timers, answered, habit, callVars, thrown>>

\* a click on a table button or the mixed button: startGame(table), lines
\* 149-156, with showQuestion; performance.now() is counted from
\* the last showQuestion on
StartGame(table, rnd) ==
  /\ Clickable("start")
  /\ rounds < MaxRounds
  /\ rounds' = rounds + 1
  /\ LET qs == generateQuestions(table, rnd)
     IN  /\ questions' = qs
         /\ dom' = showQuestionDom(dom, qs[1], 0)
  /\ currentIndex' = 0
  /\ roundResults' = <<>>
  /\ currentAnswer' = <<>>
  /\ screen' = "game"
  /\ questionStartTime' = 0
  /\ UNCHANGED <<storage, feedbackTimeout, isShowingFeedback, timers, answered,
                 habit, callVars, thrown>>

\* a digit key while the game screen is active, or a click on a numpad
\* button: pressDigit, lines 306-311
PressDigit(digit) ==
  /\ screen = "game"
  /\ IF isShowingFeedback \/ Len(currentAnswer) >= MAX_DIGITS
     THEN UNCHANGED vars
     ELSE /\ currentAnswer' = Append(currentAnswer, digit)
          /\ dom' = [dom EXCEPT !.answerDisplay = Append(currentAnswer, digit)]
          /\ UNCHANGED <<storage, screen, questions, currentIndex,
                         questionStartTime, roundResults, feedbackTimeout,
                         isShowingFeedback, timers, rounds, answered, habit, callVars,
                         thrown>>

\* the Backspace key or the backspace button: pressBackspace, lines 313-317
PressBackspace ==
  /\ screen = "game"
  /\ IF isShowingFeedback
     THEN UNCHANGED vars
     ELSE LET cut == SubSeq(currentAnswer, 1, Len(currentAnswer) - 1)
          IN  /\ currentAnswer' = cut
              /\ dom' = [dom EXCEPT !.answerDisplay = cut]
              /\ UNCHANGED <<storage, screen, questions, currentIndex,
                             questionStartTime, roundResults, feedbackTimeout,
                             isShowingFeedback, timers, rounds, answered, habit,
                             callVars, thrown>>

\* the early return of line 169 without its test of isShowingFeedback
submitIgnored_EmptyOnly == currentAnswer = <<>>

\* line 169: submitAnswer returns at once
submitIgnored == currentAnswer = <<>> \/ isShowingFeedback

\* the Enter key or the enter button, ms after the question was shown:
\* submitAnswer, lines 168-189, with showFeedback, lines 191-209.  An
\* exception of updateStats ends the handler before showFeedback.
SubmitAnswer(ms) ==
  /\ screen = "game"
  /\ IF submitIgnored
     THEN UNCHANGED vars
     ELSE LET q          == questions[currentIndex + 1]
              userAnswer == parseDigits(currentAnswer)
              correct    == userAnswer = q.answer
              now        == questionStartTime + ms
              timeSec    == Rat(now - questionStartTime, 1000)
              upd        == updateStats(storage, q.a, q.b, correct, timeSec)
              id         == FreshTimerId
          IN  /\ currentIndex < Len(questions)
              /\ answered < MaxAnswers
              /\ currentAnswer \in AnswersTried(q)
              /\ Habit(correct, ms) \in HabitsOpen
              /\ habit' = IF habit = Scripted THEN habit ELSE Habit(correct, ms)
              /\ answered' = answered + 1
              /\ roundResults' = Append(roundResults,
                   [a |-> q.a, b |-> q.b, correct |-> correct,
                    userAnswer |-> userAnswer, expected |-> q.answer,
                    timeTaken |-> timeSec])
              /\ storage' = upd.storage
              /\ thrown' = upd.thrown
              /\ IF upd.thrown
                 THEN UNCHANGED <<isShowingFeedback, dom, feedbackTimeout, timers>>
                 ELSE /\ isShowingFeedback' = TRUE
                      /\ dom' = [dom EXCEPT
                           !.feedbackOverlay = IF correct THEN "correct" ELSE "incorrect",
                           !.feedbackText = IF correct THEN "Nice!"
                                            ELSE "Answer: " \o ToString(q.answer),
                           !.answerFlash = IF correct THEN "flash-correct"
                                           ELSE "flash-incorrect"]
                      /\ feedbackTimeout' = id
                      /\ timers' = timers \cup
                           {[id |-> id, delay |-> IF correct THEN 800 ELSE 1500]}
              /\ UNCHANGED <<screen, questions, currentIndex, currentAnswer,
                             questionStartTime, rounds, callVars>>

\* the callback without the currentIndex++ of line 202
FeedbackTimer_NoAdvance(t) ==
  /\ t \in timers
  /\ timers' = timers \ {t}
  /\ isShowingFeedback' = FALSE
  /\ LET d == [dom EXCEPT !.feedbackOverlay = ""]
     IN  IF currentIndex >= TOTAL_QUESTIONS
         THEN /\ dom' = showResultsDom(d, roundResults)
              /\ screen' = "results"
              /\ UNCHANGED <<currentAnswer, questionStartTime>>
         ELSE /\ dom' = showQuestionDom(d, questions[currentIndex + 1], currentIndex)
              /\ currentAnswer' = <<>>
              /\ questionStartTime' = 0
              /\ UNCHANGED screen
  /\ UNCHANGED <<storage, questions, currentIndex, roundResults, feedbackTimeout,
                 rounds, answered, habit, callVars, thrown>>

\* a pending timer's callback, lines 199-208, with showResults, lines
\* 215-235, or showQuestion, lines 158-166 (a TypeError when questions has
\* no such question)
FeedbackTimer(t) ==
  /\ t \in timers
  /\ timers' = timers \ {t}
  /\ isShowingFeedback' = FALSE
  /\ currentIndex' = currentIndex + 1
  /\ LET d == [dom EXCEPT !.feedbackOverlay = ""]
     IN  IF currentIndex + 1 >= TOTAL_QUESTIONS
         THEN /\ dom' = showResultsDom(d, roundResults)
              /\ screen' = "results"
              /\ UNCHANGED <<currentAnswer, questionStartTime, thrown>>
         ELSE IF currentIndex + 1 < Len(questions)
         THEN /\ dom' = showQuestionDom(d, questions[currentIndex + 2], currentIndex + 1)
              /\ currentAnswer' = <<>>
              /\ questionStartTime' = 0
              /\ UNCHANGED <<screen, thrown>>
         ELSE /\ dom' = d
              /\ thrown' = TRUE
              /\ UNCHANGED <<screen, currentAnswer, questionStartTime>>
  /\ UNCHANGED <<storage, questions, roundResults, feedbackTimeout, rounds,
                 answered, habit, callVars>>

\* a back button without the clearTimeout of line 349
Back_KeepsTimer ==
  /\ Clickable("game")
  /\ isShowingFeedback' = FALSE
  /\ dom' = [dom EXCEPT !.feedbackOverlay = ""]
  /\ screen' = "start"
  /\ UNCHANGED <<storage, questions, currentIndex, currentAnswer,
                 questionStartTime, roundResults, feedbackTimeout, timers,
                 rounds, answered, habit, callVars, thrown>>

\* a back button that also removes the storage entry
Back_RemovesEntry ==
  /\ Clickable("game")
  /\ timers' = {t \in timers : t.id # feedbackTimeout}
  /\ isShowingFeedback' = FALSE
  /\ dom' = [dom EXCEPT !.feedbackOverlay = ""]
  /\ screen' = "start"
  /\ storage' = Absent
  /\ UNCHANGED <<questions, currentIndex, currentAnswer,
                 questionStartTime, roundResults, feedbackTimeout, rounds,
                 answered, habit, callVars, thrown>>

\* a click on the back button, lines 348-353
Back ==
  /\ Clickable("game")
  /\ timers' = {t \in timers : t.id # feedbackTimeout}
  /\ isShowingFeedback' = FALSE
  /\ dom' = [dom EXCEPT !.feedbackOverlay = ""]
  /\ screen' = "start"
  /\ UNCHANGED <<storage, questions, currentIndex, currentAnswer,
                 questionStartTime, roundResults, feedbackTimeout, rounds,
                 answered, habit, callVars, thrown>>

\* a click on "play again", lines 364-366
PlayAgain ==
  /\ Clickable("results")
  /\ screen' = "start"
  /\ UNCHANGED <<storage, questions, currentIndex, currentAnswer,
                 questionStartTime, roundResults, feedbackTimeout,
                 isShowingFeedback, timers, dom, rounds, answered, habit, callVars,
                 thrown>>

\* a click on a stats button of the start or the results screen: openStats,
\* lines 293-296.  The grid's cells are renderStatsGrid(storage); the page
\* keeps them, and nothing reads them back.
OpenStats ==
  /\ Clickable("start") \/ Clickable("results")
  /\ LET r == renderStatsGrid(storage)
     IN  /\ thrown' = r.thrown
         /\ dom' = IF r.thrown THEN dom ELSE [dom EXCEPT !.statsModalOpen = TRUE]
  /\ UNCHANGED <<storage, screen, questions, currentIndex, currentAnswer,
                 questionStartTime, roundResults, feedbackTimeout,
                 isShowingFeedback, timers, rounds, answered, habit, callVars>>

\* a click on the close button or on the modal's backdrop: closeStats
CloseStats ==
  /\ dom.statsModalOpen
  /\ dom' = [dom EXCEPT !.statsModalOpen = FALSE]
  /\ UNCHANGED <<storage, screen, questions, currentIndex, currentAnswer,
                 questionStartTime, roundResults, feedbackTimeout,
                 isShowingFeedback, timers, rounds, answered, habit, callVars, thrown>>

Init == storage = Absent /\ InitGame /\ InitCall

Next ==
  \/ \E table \in GameModes, rnd \in GameStreams : StartGame(table, rnd)
  \/ \E digit \in DigitsTried : PressDigit(digit)
  \/ PressBackspace
  \/ \E ms \in GameElapsedMs : SubmitAnswer(ms)
  \/ \E t \in timers : FeedbackTimer(t)
  \/ Back
  \/ PlayAgain
  \/ OpenStats
  \/ CloseStats

Spec == Init /\ [][Next]_vars

-----------------------------------------------------------------------------
(* The scenario: one round of table 9 played by the scripted learner *)

\* seeds of Math.random() in the scenario: 0..MaxScenarioSeed
MaxScenarioSeed == 11

ScenarioStreams == {LcgStream(seed) : seed \in 0..MaxScenarioSeed}

InitScenario == storage = Absent /\ InitRound /\ habit = Scripted /\ InitCall

\* one round of table 9; the learner types the answer and presses Enter
NextScenario ==
  \/ \E rnd \in ScenarioStreams : rounds = 0 /\ StartGame("9", rnd)
  \/ \E digit \in DigitsTried : ~isShowingFeedback /\ PressDigit(digit)
  \/ \E ms \in GameElapsedMs : SubmitAnswer(ms)
  \/ \E t \in timers : FeedbackTimer(t)

SpecScenario == InitScenario /\ [][NextScenario]_vars

\* the text "<a>_<b>" of a question as displayed
DisplayedPair(q) == ToString(q.a) \o "_" \o ToString(q.b)

\* the indexes (from 1) of the questions qs displayed as the pair k
ShownUnder(qs, k) == {i \in 1..Len(qs) : DisplayedPair(qs[i]) = k}

\* C12, as the specification words it: after the scenario's round every one
\* of the 12 facts has one record; a fact presented once has confidence 100
\* and attempts 1, a fact presented twice has attempts 2 and the blend of a
\* 100-score and a 70-score attempt, in either order.
C12_ScenarioAsWorded ==
  screen = "results" =>
    /\ Cardinality(Keys(storage)) = 12
    /\ \A i \in 1..Len(questions) :
         LET q == questions[i]
         IN  \E k \in {statKey(q.a, q.b), statKey(q.b, q.a)} :
               /\ HasRecord(storage, k)
               /\ IF Presentations(questions, Fact(q)) = 1
                  THEN Record(storage, k) =
                         Obj([confidence |-> Num(RInt(100)), attempts |-> Num(RInt(1))])
                  ELSE /\ Record(storage, k).fields.attempts = Num(RInt(2))
                       /\ Record(storage, k).fields.confidence \in
                            {Num(RatAdd(RatMul(RInt(100), Rat(7, 10)),
                                        RatMul(RInt(70), Rat(3, 10)))),
                             Num(RatAdd(RatMul(RInt(70), Rat(7, 10)),
                                        RatMul(RInt(100), Rat(3, 10))))}

\* C12, as the code has it: after the scenario's round the table has one
\* record per ordered pair a x b that was displayed.  A pair displayed once
\* holds attempts 1, and confidence 100 when it was the first presentation
\* of its fact, 0 (a wrong answer after 9 s scores 0) when it was the repeat
\* of a fact first shown in the other order.  A pair displayed twice holds
\* attempts 2 and confidence 100 * 0.7 + 0 * 0.3 = 70.
C12_Scenario ==
  screen = "results" =>
    /\ Keys(storage) = {DisplayedPair(questions[i]) : i \in 1..Len(questions)}
    /\ \A k \in Keys(storage) :
         LET shown == ShownUnder(questions, k)
             first == CHOOSE i \in shown : \A j \in shown : i <= j
         IN  Record(storage, k) =
               IF Cardinality(shown) = 2
               THEN Obj([confidence |-> Num(RInt(70)), attempts |-> Num(RInt(2))])
               ELSE IF IsRepeat(questions, first - 1)
               THEN Obj([confidence |-> Num(RInt(0)), attempts |-> Num(RInt(1))])
               ELSE Obj([confidence |-> Num(RInt(100)), attempts |-> Num(RInt(1))])

\* the round has ended with one repeat shown in the order of its first
\* presentation and another shown in the other order
C12_Witness ==
  /\ screen = "results"
  /\ habit = Scripted
  /\ \E k \in Keys(storage) :
       Record(storage, k) = Obj([confidence |-> Num(RInt(70)), attempts |-> Num(RInt(2))])
  /\ \E k \in Keys(storage) :
       Record(storage, k) = Obj([confidence |-> Num(RInt(0)), attempts |-> Num(RInt(1))])

\* C2: across game events and the updateStats calls they make, a record once
\* created for a key is never deleted, its attempts is an integer >= 1, and
\* its attempts never decreases or resets from one state to the next.  The
\* records are those of the first state and of the steps that change storage.
C2_AttemptsNeverDrop ==
  /\ \A k \in Keys(storage) :
       LET n == Record(storage, k).fields.attempts
       IN  n.kind = "number" /\ RatIsInt(n.val) /\ RatGe(n.val, RInt(1))
  /\ [][storage' # storage =>
         LET old == loadStats(storage).value.fields
             new == loadStats(storage').value.fields
         IN  /\ \A k \in DOMAIN new :
                  LET n == new[k].fields.attempts
                  IN  n.kind = "number" /\ RatIsInt(n.val) /\ RatGe(n.val, RInt(1))
             /\ \A k \in DOMAIN old :
                  /\ k \in DOMAIN new
                  /\ RatGe(new[k].fields.attempts.val,
                           old[k].fields.attempts.val)]_vars

\* in a second round, an answer to a fact answered before, other facts
\* having their records
C2_Witness ==
  /\ rounds = 2
  /\ isShowingFeedback
  /\ Cardinality(Keys(storage)) >= 2
  /\ LET q == questions[currentIndex + 1]
     IN  /\ HasRecord(storage, statKey(q.a, q.b))
         /\ RatGe(Record(storage, statKey(q.a, q.b)).fields.attempts.val, RInt(2))

\* C13: under any interleaving of the events, while the game screen is
\* active the results recorded in the round are currentIndex when an answer
\* is awaited and currentIndex + 1 while feedback shows, with currentIndex
\* in 0..14.  A result is recorded only by a submit made with an answer
\* typed and no feedback showing, together with one updateStats call keyed
\* by the displayed operands of questions[currentIndex]; storage changes in
\* no other step.
C13_OneUpdatePerAnswer ==
  [][/\ screen' = "game" =>
          /\ currentIndex' \in 0..14
          /\ Len(roundResults') =
               currentIndex' + (IF isShowingFeedback' THEN 1 ELSE 0)
     /\ (roundResults' # roundResults /\ roundResults' # <<>>) =>
          LET q == questions[currentIndex + 1]
              r == roundResults'[Len(roundResults')]
          IN  /\ screen = "game"
              /\ currentAnswer # <<>>
              /\ ~isShowingFeedback
              /\ currentIndex \in 0..14
              /\ roundResults' = Append(roundResults, r)
              /\ r.a = q.a /\ r.b = q.b /\ r.expected = q.answer
              /\ r.userAnswer = parseDigits(currentAnswer)
              /\ r.correct = (r.userAnswer = q.answer)
              /\ storage' =
                   updateStats(storage, q.a, q.b, r.correct, r.timeTaken).storage
              /\ answered' = answered + 1
     /\ storage' # storage => Len(roundResults') = Len(roundResults) + 1]_vars

\* in a second round feedback shows for the third answer, the first round
\* having been left while its feedback showed
C13_Witness ==
  /\ rounds = 2
  /\ screen = "game"
  /\ isShowingFeedback
  /\ currentIndex = 2
  /\ Len(roundResults) = 3
  /\ answered >= 4

\* C14: leaving a round by the back button, at any point of the round and
\* while feedback shows too, leaves the persisted table as it is: the
\* records of the questions answered in the round stay, and starting a
\* round afterwards does not alter the table either.
C14_BackKeepsStats ==
  [][((screen = "game" /\ screen' = "start") \/ (screen = "start" /\ screen' = "game"))
       => /\ storage' = storage
          /\ \A i \in 1..Len(roundResults) :
               HasRecord(storage', statKey(roundResults[i].a, roundResults[i].b))]_vars

\* a second round was left while the feedback of its second answer was
\* showing: the timer is cancelled, both results are still in the history
C14_Witness ==
  /\ rounds = 2
  /\ screen = "start"
  /\ ~isShowingFeedback
  /\ timers = {}
  /\ Len(roundResults) = 2
  /\ currentIndex = 1
  /\ \A i \in 1..2 :
       HasRecord(storage, statKey(roundResults[i].a, roundResults[i].b))

-----------------------------------------------------------------------------
(* showResults on its own, at the end of a round answered in any way *)

\* the questions of the round whose end is shown
ResultsQuestions == generateQuestions("9", LcgStream(0))

\* the history of a round on ResultsQuestions in which the i-th answer was
\* right exactly when pattern[i]
ResultsOf(pattern) ==
  [i \in 1..TOTAL_QUESTIONS |->
     LET q == ResultsQuestions[i]
     IN  [a |-> q.a, b |-> q.b, correct |-> pattern[i],
          userAnswer |-> IF pattern[i] THEN q.answer ELSE WrongAnswer(q),
          expected |-> q.answer, timeTaken |-> Seconds(FastestMs)]]

\* the timer's callback of the 15th answer is about to run showResults
InitResults ==
  /\ storage = Absent
  /\ screen = "game"
  /\ questions = ResultsQuestions
  /\ currentIndex = TOTAL_QUESTIONS
  /\ currentAnswer = <<>>
  /\ questionStartTime = 0
  /\ \E pattern \in [1..TOTAL_QUESTIONS -> BOOLEAN] : roundResults = ResultsOf(pattern)
  /\ feedbackTimeout = 1
  /\ isShowingFeedback = FALSE
  /\ timers = {}
  /\ dom = InitDom
  /\ rounds = 1
  /\ answered = TOTAL_QUESTIONS
  /\ habit = Plain
  /\ InitCall

CallShowResults ==
  /\ lastCall = NoCall
  /\ dom' = showResultsDom(dom, roundResults)
  /\ screen' = "results"
  /\ lastCall' = [op |-> "showResults"]
  /\ UNCHANGED <<storage, questions, currentIndex, currentAnswer,
                 questionStartTime, roundResults, feedbackTimeout,
                 isShowingFeedback, timers, rounds, answered, habit, calls,
                 returned, thrown>>

NextResults == CallShowResults

SpecResults == InitResults /\ [][NextResults]_vars

\* C16: at the end of a round the tier is determined by the number of
\* correct results alone: top exactly when it is 15, high from 12 to 14, mid
\* from 8 to 11, low up to 7; and the wrong-answer list is the subsequence
\* of the incorrect results, in the order of presentation.
C16_TierAndWrongList ==
  lastCall.op = "showResults" =>
    LET correctCount == Cardinality({i \in 1..Len(roundResults) : roundResults[i].correct})
        wrong        == {i \in 1..Len(roundResults) : ~roundResults[i].correct}
        nth(j)       == CHOOSE i \in wrong : Cardinality({k \in wrong : k < i}) = j - 1
    IN  /\ dom.resultsScore = correctCount
        /\ (dom.resultsTitle = "Perfect Round!") = (correctCount = 15)
        /\ (dom.resultsTitle = "Amazing!") = (correctCount \in 12..14)
        /\ (dom.resultsTitle = "Great Job!") = (correctCount \in 8..11)
        /\ (dom.resultsTitle = "Keep Practising!") = (correctCount <= 7)
        /\ Len(dom.resultsDetails) = Cardinality(wrong)
        /\ \A j \in 1..Len(dom.resultsDetails) :
             LET d == dom.resultsDetails[j]
                 r == roundResults[nth(j)]
             IN  /\ d.a = r.a /\ d.b = r.b
                 /\ d.expected = r.expected
                 /\ d.userAnswer = r.userAnswer

\* a round of 12 correct answers, the wrong ones scattered: the second, the
\* eighth and the last
C16_Witness ==
  /\ lastCall.op = "showResults"
  /\ dom.resultsTitle = "Amazing!"
  /\ dom.resultsScore = 12
  /\ {i \in 1..Len(roundResults) : ~roundResults[i].correct} = {2, 8, 15}
  /\ Len(dom.resultsDetails) = 3

\* C18: the results screen is shown only after exactly 15 answers of the
\* current round were recorded, the i-th recorded result being that of the
\* i-th presented question; the history is empty when the first question
\* of a round is presented, and the final tally counts the answers of the
\* round that ended and no other.
C18_HistoryOfTheRound ==
  [][/\ screen' \in {"game", "results"} =>
          \A i \in 1..Len(roundResults') :
            /\ i <= Len(questions')
            /\ roundResults'[i].a = questions'[i].a
            /\ roundResults'[i].b = questions'[i].b
            /\ roundResults'[i].expected = questions'[i].answer
     /\ screen' = "results" =>
          /\ Len(roundResults') = 15
          /\ dom'.resultsScore =
               Cardinality({i \in 1..15 : roundResults'[i].correct})
     /\ (screen # "results" /\ screen' = "results") =>
          /\ screen = "game"
          /\ Len(roundResults) = 15
          /\ roundResults' = roundResults
     /\ (screen # "game" /\ screen' = "game") =>
          /\ roundResults' = <<>>
          /\ currentIndex' = 0
          /\ dom'.question = <<questions'[1].a, questions'[1].b>>]_vars

\* the results of a second round in which every answer was wrong, after a
\* first round left with one right answer
C18_Witness ==
  /\ rounds = 2
  /\ screen = "results"
  /\ answered = 16
  /\ dom.resultsScore = 0
  /\ Len(dom.resultsDetails) = 15

\* C19: a feedback timer never takes effect after its round was left.  At
\* most one timer is pending, and only while feedback shows on the game
\* screen; the back button leaves none pending; currentIndex changes only
\* when a round starts (to 0) and when the timer of the answer just accepted
\* in the round runs (by one); and the results screen and the next question
\* are shown by that timer alone.
C19_NoStaleTimer ==
  [][/\ Cardinality(timers') <= 1
     /\ timers' # {} => (screen' = "game" /\ isShowingFeedback')
     /\ (screen = "game" /\ screen' = "start") => timers' = {}
     /\ currentIndex' # currentIndex =>
          \/ screen = "start" /\ screen' = "game" /\ currentIndex' = 0
          \/ /\ screen = "game" /\ isShowingFeedback /\ ~isShowingFeedback'
             /\ timers # {} /\ timers' = {}
             /\ Len(roundResults) = currentIndex + 1
             /\ currentIndex' = currentIndex + 1
             /\ roundResults' = roundResults
     /\ (screen' = "results" /\ screen # "results") =>
          (screen = "game" /\ isShowingFeedback /\ currentIndex' = currentIndex + 1)
     /\ (screen = "game" /\ screen' = "game" /\ dom'.question # dom.question) =>
          currentIndex' = currentIndex + 1]_vars

\* a second round was left while the feedback of its third answer showed,
\* the first having been left after two answers: no timer is pending and
\* currentIndex stays at 2
C19_Witness ==
  /\ rounds = 2
  /\ screen = "start"
  /\ answered = 5
  /\ Len(roundResults) = 3
  /\ currentIndex = 2
  /\ timers = {}
  /\ feedbackTimeout # 0
  /\ ~isShowingFeedback

-----------------------------------------------------------------------------
(* Progress.  The browser runs the callback of a pending timer; the learner *)
(* goes on typing the answer and pressing Enter, never Backspace, and may  *)
(* press the back button at any time.  A round is started only when the    *)
(* answers left in the behaviour can complete it.                          *)

NextLive ==
  \/ \E table \in GameModes, rnd \in GameStreams :
       answered + TOTAL_QUESTIONS <= MaxAnswers /\ StartGame(table, rnd)
  \/ \E digit \in DigitsTried : PressDigit(digit)
  \/ \E ms \in GameElapsedMs : SubmitAnswer(ms)
  \/ \E t \in timers : FeedbackTimer(t)
  \/ Back
  \/ PlayAgain

\* submitAnswer would accept the answer typed: the buffer holds the whole
\* of an answer the learner gives, and no feedback shows
SubmitReady ==
  /\ screen = "game"
  /\ ~submitIgnored
  /\ currentIndex < Len(questions)
  /\ answered < MaxAnswers
  /\ currentAnswer \in AnswersTried(questions[currentIndex + 1])

\* Weak fairness of the timer's callback, of the learner's digits and of the
\* learner's Enter; the last is written out, SubmitReady being where a
\* step of SubmitAnswer that changes the state is enabled.
SpecLive ==
  /\ Init
  /\ [][NextLive]_vars
  /\ WF_vars(\E t \in timers : FeedbackTimer(t))
  /\ WF_vars(\E digit \in DigitsTried : PressDigit(digit))
  /\ ([]<>~SubmitReady \/ []<><<\E ms \in GameElapsedMs : SubmitAnswer(ms)>>_vars)

\* C20: every accepted answer is followed, the timer firing unless it is
\* cancelled, by the next question with an empty buffer and no feedback, by
\* the results screen when it was the 15th answer, or by the start screen
\* when the back button was pressed; feedback never shows for ever; and a
\* learner who keeps answering reaches the results screen unless the back
\* button is pressed.
C20_FeedbackEnds ==
  /\ isShowingFeedback
       ~> /\ ~isShowingFeedback
          /\ \/ /\ screen = "game"
                /\ currentAnswer = <<>>
                /\ dom.feedbackOverlay = ""
                /\ dom.progress = currentIndex + 1
                /\ dom.question = <<questions[currentIndex + 1].a,
                                    questions[currentIndex + 1].b>>
             \/ screen = "results"
             \/ screen = "start"
  /\ [][(isShowingFeedback /\ ~isShowingFeedback') =>
          \/ /\ screen' = "game"
             /\ currentIndex < TOTAL_QUESTIONS - 1
             /\ currentIndex' = currentIndex + 1
             /\ currentAnswer' = <<>>
          \/ /\ screen' = "results"
             /\ currentIndex = TOTAL_QUESTIONS - 1
             /\ Len(roundResults) = TOTAL_QUESTIONS
          \/ /\ screen' = "start"
             /\ currentIndex' = currentIndex]_vars
  /\ (screen = "game") ~> (screen \in {"results", "start"})

\* the feedback of the 15th answer of a round is showing
C20_Witness ==
  /\ screen = "game"
  /\ isShowingFeedback
  /\ currentIndex = TOTAL_QUESTIONS - 1
  /\ Len(roundResults) = TOTAL_QUESTIONS
  /\ timers # {}

=============================================================================
